---- MODULE Spec2Model ----
(***************************************************************************)
(* Model of the django bug-fix analysis pipeline:                          *)
(*   scraper.py           get_bug_data, save_to_csv                        *)
(*   filtered.py          filter_django_bugs (four exclusion rules)        *)
(*   visualization_v2.py  load_data, compute_monthly_stats,                *)
(*                        plot_core_ratio_vs_mean_duration, build_table1   *)
(* A CSV file is a sequence of rows; a row is a record of cells.  A text   *)
(* cell of a file is a string, a numeric cell is <<n>> or <<>> (an empty   *)
(* field).  A DataFrame cell is <<v>> or NaN.  duration_days is kept in    *)
(* hundredths of a day (the collector rounds it to 2 digits).              *)
(***************************************************************************)
EXTENDS Integers, Sequences, FiniteSets, TLC

VARIABLES files, run, rerun, pc, main_df, min_fixes_per_month, monthly_stats,
          correlation, table1, disk,
          issues, contributors, spc, core_members, scanned_count, bug_data,
          stopped_by, data_list

vars ==
    <<files, run, rerun, pc, main_df, min_fixes_per_month, monthly_stats,
      correlation, table1, disk,
      issues, contributors, spc, core_members, scanned_count, bug_data,
      stopped_by, data_list>>

filterVars == <<run, rerun>>

vizVars ==
    <<pc, main_df, min_fixes_per_month, monthly_stats, correlation, table1, disk>>

\* the remote repository and the locals of get_bug_data
scraperVars ==
    <<issues, contributors, spc, core_members, scanned_count, bug_data,
      stopped_by, data_list>>

-----------------------------------------------------------------------------
(* Bounds of the model *)

MaxRawRows == 3

MaxDataRows == 3

MaxRemoteIssues == 4

\* the cap on collected records, 2000 in scraper.py, scaled to the model
MAX_ISSUES == 2

-----------------------------------------------------------------------------
(* Values *)

NaN == <<>>

Val(v) == <<v>>

notna(c) == c # NaN

Absent == [exists |-> FALSE, rows |-> <<>>]

File(rows) == [exists |-> TRUE, rows |-> rows]

RAW_CSV == "data/django_bugs_analysis.csv"

FILTERED_CSV == "data/django_bugs_filtered.csv"

REFILTERED_CSV == "data/django_bugs_refiltered.csv"

FileNames == {RAW_CSV, FILTERED_CSV, REFILTERED_CSV}

-----------------------------------------------------------------------------
(* Strings: str.lower, str.startswith, str.contains *)

UpperAlpha == "ABCDEFGHIJKLMNOPQRSTUVWXYZ"

LowerAlpha == "abcdefghijklmnopqrstuvwxyz"

CharAt(s, i) == SubSeq(s, i, i)

LowerChar(c) ==
    IF \E i \in 1..26 : CharAt(UpperAlpha, i) = c
    THEN CharAt(LowerAlpha, CHOOSE i \in 1..26 : CharAt(UpperAlpha, i) = c)
    ELSE c

RECURSIVE lower(_)
lower(s) ==
    IF Len(s) = 0 THEN ""
    ELSE LowerChar(CharAt(s, 1)) \o lower(SubSeq(s, 2, Len(s)))

startswith(s, prefix) ==
    /\ Len(s) >= Len(prefix)
    /\ SubSeq(s, 1, Len(prefix)) = prefix

\* a literal pattern found anywhere in s
search(s, pat) ==
    \E i \in 1..(Len(s) - Len(pat) + 1) : SubSeq(s, i, i + Len(pat) - 1) = pat

\* re.search with re.IGNORECASE of an alternation of literal patterns
contains_nocase(s, pats) ==
    \E p \in pats : search(lower(s), lower(p))

-----------------------------------------------------------------------------
(* CSV reading and writing (pandas read_csv / to_csv) *)

\* the text cells read_csv turns into NaN
NA_VALUES == {"", "NA", "N/A", "NaN", "nan", "null", "NULL", "None", "n/a", "#N/A"}

ReadText(cell) == IF cell \in NA_VALUES THEN NaN ELSE Val(cell)

WriteText(c) == IF c = NaN THEN "" ELSE c[1]

ReadRow(r) ==
    [issue_id       |-> r.issue_id,
     type           |-> ReadText(r.type),
     title          |-> ReadText(r.title),
     duration_days  |-> r.duration_days,
     comments_count |-> r.comments_count,
     fixer_login    |-> ReadText(r.fixer_login),
     is_core_member |-> r.is_core_member,
     created_at     |-> ReadText(r.created_at)]

WriteRow(r) ==
    [issue_id       |-> r.issue_id,
     type           |-> WriteText(r.type),
     title          |-> WriteText(r.title),
     duration_days  |-> r.duration_days,
     comments_count |-> r.comments_count,
     fixer_login    |-> WriteText(r.fixer_login),
     is_core_member |-> r.is_core_member,
     created_at     |-> WriteText(r.created_at)]

read_csv(content) == [i \in 1..Len(content) |-> ReadRow(content[i])]

to_csv(df) == [i \in 1..Len(df) |-> WriteRow(df[i])]

\* df[mask]: the rows of df whose entry of the boolean series mask is True
Select(df, mask) ==
    LET kept[i \in 0..Len(df)] ==
            IF i = 0 THEN <<>>
            ELSE IF mask[i] THEN Append(kept[i - 1], df[i])
                 ELSE kept[i - 1]
    IN  kept[Len(df)]

\* m1 & m2 of two boolean series
And(m1, m2) == [i \in 1..Len(m1) |-> m1[i] /\ m2[i]]

-----------------------------------------------------------------------------
(* Inputs: the rows a raw file is made of *)

ValidRow ==
    [issue_id |-> Val(101), type |-> "Issue", title |-> "Fixed bug in admin",
     duration_days |-> Val(250),
     comments_count |-> Val(2), fixer_login |-> "alice", is_core_member |-> Val(1),
     created_at |-> "2020-01-15"]

RawRowKinds ==
    { ValidRow,
      [ValidRow EXCEPT !.title = "Fix #99999 test"],
      [ValidRow EXCEPT !.title = "Add MY-FEATURE"],
      [ValidRow EXCEPT !.title = "[Stitch Remote SWE] fix"],
      [ValidRow EXCEPT !.title = "[stitch remote swe] fix"],
      [ValidRow EXCEPT !.title = "bug [Stitch Remote SWE]"],
      [ValidRow EXCEPT !.comments_count = Val(0)],
      [ValidRow EXCEPT !.comments_count = NaN],
      [ValidRow EXCEPT !.fixer_login = ""],
      [ValidRow EXCEPT !.title = ""],
      [ValidRow EXCEPT !.title = "NA"],
      [ValidRow EXCEPT !.issue_id = NaN],
      [ValidRow EXCEPT !.title = "fix #99999", !.comments_count = Val(0)],
      [ValidRow EXCEPT !.title = "[Stitch Remote SWE] my-feature", !.fixer_login = ""],
      [ValidRow EXCEPT !.title = "[Stitch Remote SWE] bug", !.comments_count = Val(0),
                       !.issue_id = NaN] }

RECURSIVE SeqsUpTo(_, _)
SeqsUpTo(S, n) ==
    IF n = 0 THEN {<<>>}
    ELSE LET shorter == SeqsUpTo(S, n - 1) IN
         shorter \cup {Append(s, x) : s \in shorter, x \in S}

\* section 8 of the specification: 3 test tickets, 1 zero comments,
\* 1 missing fixer_login, 1 valid
ScenarioSixRows ==
    << [ValidRow EXCEPT !.title = "Fix #99999 a"],
       [ValidRow EXCEPT !.comments_count = Val(0)],
       [ValidRow EXCEPT !.title = "fix #99999 b"],
       [ValidRow EXCEPT !.fixer_login = ""],
       ValidRow,
       [ValidRow EXCEPT !.title = "bug #99999"] >>

RawFiles ==
    {File(rows) : rows \in SeqsUpTo(RawRowKinds, MaxRawRows) \cup {ScenarioSixRows}}

-----------------------------------------------------------------------------
(* filtered.py *)

TEST_TICKET_PATTERNS == {"#99999", "my-feature"}

STITCH_PREFIX == "[Stitch Remote SWE]"

\* the titles of the input rows, each matched once
InputTitles ==
    {r.title : r \in RawRowKinds}
        \cup {ScenarioSixRows[i].title : i \in 1..Len(ScenarioSixRows)}

IsTestTicketTitle == [t \in InputTitles |-> contains_nocase(t, TEST_TICKET_PATTERNS)]

IsStitchTitle == [t \in InputTitles |-> startswith(t, STITCH_PREFIX)]

\* line 31: ~title.str.contains('#99999|my-feature', case=False, na=False)
test_ticket_filter(df) ==
    [i \in 1..Len(df) |->
        ~ (notna(df[i].title) /\ IsTestTicketTitle[df[i].title[1]])]

\* line 35: ~title.str.startswith('[Stitch Remote SWE]', na=False)
stitch_filter(df) ==
    [i \in 1..Len(df) |->
        ~ (notna(df[i].title) /\ IsStitchTitle[df[i].title[1]])]

\* a filter that keeps the rows with zero comments
comments_filter_keeps_zero(df) ==
    [i \in 1..Len(df) |->
        notna(df[i].comments_count) /\ df[i].comments_count[1] >= 0]

\* line 39: comments_count > 0 (a comparison with NaN is False)
comments_filter(df) ==
    [i \in 1..Len(df) |->
        notna(df[i].comments_count) /\ df[i].comments_count[1] > 0]

\* line 44
missing_data_filter(df) ==
    [i \in 1..Len(df) |->
        notna(df[i].issue_id) /\ notna(df[i].title) /\ notna(df[i].fixer_login)]

\* line 31: the .str accessor exists only on a column that holds strings;
\* read_csv gives an empty column the object dtype and an all-NaN column
\* float64 (no title of the inputs is a number)
title_has_str_accessor(df) ==
    Len(df) = 0 \/ \E i \in 1..Len(df) : notna(df[i].title)

mask1(df) == test_ticket_filter(df)

mask12(df) == And(test_ticket_filter(df), stitch_filter(df))

mask123(df) == And(And(test_ticket_filter(df), stitch_filter(df)), comments_filter(df))

mask1234(df) ==
    And(And(And(test_ticket_filter(df), stitch_filter(df)), comments_filter(df)),
        missing_data_filter(df))

\* line 49
filtered_df(df) == Select(df, mask1234(df))

\* line 32
removed_test_tickets(df) == Len(df) - Len(Select(df, mask1(df)))

\* the stitch count taken with the stitch mask alone, not cumulatively
removed_stitch_independent(df) == Len(df) - Len(Select(df, stitch_filter(df)))

\* line 36
removed_stitch(df) == Len(Select(df, mask1(df))) - Len(Select(df, mask12(df)))

\* lines 40-41
removed_zero_comments(df) ==
    Len(Select(df, mask12(df))) - Len(Select(df, mask123(df)))

\* lines 45-46
removed_missing(df) ==
    Len(Select(df, mask123(df))) - Len(Select(df, mask1234(df)))

NoReport == [printed |-> FALSE]

\* lines 56-62: the statistics printed before the removal percentage
FilterReport(df) ==
    [printed               |-> TRUE,
     removed_test_tickets  |-> removed_test_tickets(df),
     removed_stitch        |-> removed_stitch(df),
     removed_zero_comments |-> removed_zero_comments(df),
     removed_missing       |-> removed_missing(df),
     removed_total         |-> Len(df) - Len(filtered_df(df)),
     filtered_count        |-> Len(filtered_df(df))]

NotRun == [outcome |-> "not run"]

\* filter_django_bugs(input_file, output_file): the record of one call
FilterCall(fs, input_file, output_file) ==
    IF ~ fs[input_file].exists
    THEN [outcome |-> "returned None", input |-> input_file, output |-> output_file,
          original_count |-> 0, report |-> NoReport, filtered_df |-> <<>>,
          written |-> FALSE]
    ELSE LET df == read_csv(fs[input_file].rows) IN
         IF ~ title_has_str_accessor(df)
         THEN [outcome |-> "AttributeError", input |-> input_file,
               output |-> output_file, original_count |-> Len(df),
               report |-> NoReport, filtered_df |-> <<>>, written |-> FALSE]
         ELSE IF Len(df) = 0
         THEN [outcome |-> "ZeroDivisionError", input |-> input_file,
               output |-> output_file, original_count |-> Len(df),
               report |-> FilterReport(df), filtered_df |-> filtered_df(df),
               written |-> FALSE]
         ELSE [outcome |-> "returned", input |-> input_file,
               output |-> output_file, original_count |-> Len(df),
               report |-> FilterReport(df), filtered_df |-> filtered_df(df),
               written |-> TRUE]

FilesAfter(fs, call) ==
    IF call.written
    THEN [fs EXCEPT ![call.output] = File(to_csv(call.filtered_df))]
    ELSE fs

-----------------------------------------------------------------------------
(* The filter program *)

ScraperIdle ==
    /\ issues = <<>>
    /\ contributors = <<>>
    /\ spc = "idle"
    /\ core_members = <<>>
    /\ scanned_count = 0
    /\ bug_data = <<>>
    /\ stopped_by = "nothing"
    /\ data_list = <<>>

VizIdle ==
    /\ pc = "idle"
    /\ main_df = <<>>
    /\ min_fixes_per_month = 0
    /\ monthly_stats = <<>>
    /\ correlation = {}
    /\ table1 = <<>>
    /\ disk = {}

Init ==
    /\ \E raw \in RawFiles \cup {Absent} :
         files = [f \in FileNames |-> IF f = RAW_CSV THEN raw ELSE Absent]
    /\ run = NotRun
    /\ rerun = NotRun
    /\ VizIdle
    /\ ScraperIdle

\* filtered.py __main__, line 90
RunFilter ==
    /\ run = NotRun
    /\ run' = FilterCall(files, RAW_CSV, FILTERED_CSV)
    /\ files' = FilesAfter(files, run')
    /\ UNCHANGED <<rerun, vizVars, scraperVars>>

\* filter_django_bugs applied to the file it wrote
RunFilterAgain ==
    /\ run # NotRun
    /\ run.written
    /\ rerun = NotRun
    /\ rerun' = FilterCall(files, FILTERED_CSV, REFILTERED_CSV)
    /\ files' = FilesAfter(files, rerun')
    /\ UNCHANGED <<run, vizVars, scraperVars>>

Next == RunFilter \/ RunFilterAgain

Spec == Init /\ [][Next]_vars

-----------------------------------------------------------------------------
(* Numbers: a statistic is NaN, Inf or a fraction <<num, den>> with den > 0 *)

Inf == <<1, 0>>

\* float division as pandas does it: x / 0 is inf, 0 / 0 is NaN
Divide(a, b) ==
    IF b = 0 THEN (IF a = 0 THEN NaN ELSE Inf) ELSE <<a, b>>

SumSeq(s) ==
    LET acc[i \in 0..Len(s)] == IF i = 0 THEN 0 ELSE acc[i - 1] + s[i]
    IN  acc[Len(s)]

\* some sequence of the elements of a finite set
RECURSIVE SetToSeq(_)
SetToSeq(S) ==
    IF S = {} THEN <<>>
    ELSE LET x == CHOOSE x \in S : TRUE IN <<x>> \o SetToSeq(S \ {x})

\* s in ascending order
RECURSIVE sort_values(_)
sort_values(s) ==
    IF Len(s) <= 1 THEN s
    ELSE LET m == CHOOSE i \in 1..Len(s) : \A j \in 1..Len(s) : s[i] <= s[j]
             rest == SubSeq(s, 1, m - 1) \o SubSeq(s, m + 1, Len(s))
         IN  <<s[m]>> \o sort_values(rest)

mean(s) == IF Len(s) = 0 THEN NaN ELSE <<SumSeq(s), Len(s)>>

\* Series.quantile(k / 4): linear interpolation between the closest ranks
quantile(s, k) ==
    IF Len(s) = 0 THEN NaN
    ELSE LET a == sort_values(s)
             pos4 == (Len(s) - 1) * k
             lo == pos4 \div 4
             frac4 == pos4 % 4
         IN  IF frac4 = 0 THEN <<a[lo + 1], 1>>
             ELSE <<4 * a[lo + 1] + frac4 * (a[lo + 2] - a[lo + 1]), 4>>

median(s) == quantile(s, 2)

\* round to the nearest integer, halves to the even one
round(q) ==
    IF q = NaN \/ q = Inf THEN q
    ELSE LET whole == q[1] \div q[2]
             twice == 2 * (q[1] % q[2])
         IN  IF twice < q[2] THEN <<whole, 1>>
             ELSE IF twice > q[2] THEN <<whole + 1, 1>>
             ELSE IF whole % 2 = 0 THEN <<whole, 1>> ELSE <<whole + 1, 1>>

-----------------------------------------------------------------------------
(* Dates: pd.to_datetime(errors="coerce"), dt.to_period("M"), to_timestamp *)

Digits == "0123456789"

IsDigit(c) == \E i \in 1..10 : CharAt(Digits, i) = c

DigitValue(c) == (CHOOSE i \in 1..10 : CharAt(Digits, i) = c) - 1

AllDigits(s) == \A i \in 1..Len(s) : IsDigit(CharAt(s, i))

RECURSIVE ParseInt(_)
ParseInt(s) ==
    IF Len(s) = 0 THEN 0
    ELSE 10 * ParseInt(SubSeq(s, 1, Len(s) - 1)) + DigitValue(CharAt(s, Len(s)))

NaT == NaN

\* a YYYY-MM-DD text is parsed, any other text of the inputs is coerced to NaT
ParseDate(s) ==
    IF /\ Len(s) = 10
       /\ CharAt(s, 5) = "-" /\ CharAt(s, 8) = "-"
       /\ AllDigits(SubSeq(s, 1, 4))
       /\ AllDigits(SubSeq(s, 6, 7))
       /\ AllDigits(SubSeq(s, 9, 10))
       /\ ParseInt(SubSeq(s, 6, 7)) \in 1..12
       /\ ParseInt(SubSeq(s, 9, 10)) \in 1..31
    THEN Val([year  |-> ParseInt(SubSeq(s, 1, 4)),
              month |-> ParseInt(SubSeq(s, 6, 7)),
              day   |-> ParseInt(SubSeq(s, 9, 10))])
    ELSE NaT

to_period(ts) == ts.year * 12 + (ts.month - 1)

to_timestamp(p) == [year |-> p \div 12, month |-> (p % 12) + 1, day |-> 1]

-----------------------------------------------------------------------------
(* Inputs: the rows a filtered data file is made of *)

CoreRow ==
    [issue_id |-> Val(101), type |-> "Issue", title |-> "Fixed bug in admin",
     duration_days |-> Val(250),
     comments_count |-> Val(2), fixer_login |-> "alice", is_core_member |-> Val(1),
     created_at |-> "2020-01-15"]

CommunityRow ==
    [issue_id |-> Val(102), type |-> "PR", title |-> "Fix typo in docs",
     duration_days |-> Val(1025),
     comments_count |-> Val(5), fixer_login |-> "bob", is_core_member |-> Val(0),
     created_at |-> "2020-01-28"]

DataRowKinds ==
    { CoreRow,
      CommunityRow,
      [CoreRow EXCEPT !.created_at = "2020-02-03", !.duration_days = Val(40)],
      [CommunityRow EXCEPT !.created_at = "2020-03-20"],
      [CoreRow EXCEPT !.issue_id = NaN],
      [CoreRow EXCEPT !.is_core_member = Val(2)],
      [CommunityRow EXCEPT !.created_at = "not a date"],
      [CommunityRow EXCEPT !.duration_days = NaN] }

\* section 8 of the specification: 12 months with 5 fixes each
ScenarioTwelveMonths ==
    [i \in 1..60 |->
        LET m == ((i - 1) \div 5) + 1
            text == IF m < 10 THEN "2021-0" \o CharAt(Digits, m + 1) \o "-10"
                    ELSE "2021-1" \o CharAt(Digits, m - 9) \o "-10"
        IN  [(IF i % 2 = 0 THEN CoreRow ELSE CommunityRow) EXCEPT
                !.issue_id = Val(200 + i), !.created_at = text]]

DataFiles ==
    {File(rows) :
        rows \in SeqsUpTo(DataRowKinds, MaxDataRows) \cup {ScenarioTwelveMonths}}

InputDates ==
    {r.created_at : r \in DataRowKinds}
        \cup {ScenarioTwelveMonths[i].created_at : i \in 1..Len(ScenarioTwelveMonths)}

ParsedDate == [t \in InputDates |-> ParseDate(t)]

-----------------------------------------------------------------------------
(* visualization_v2.py *)

MIN_FIXES_PER_MONTH == 10

FIGURES_DIR == "figures"

TABLES_DIR == "tables"

ARCHIVE_FIG_DIR == "figures/run_TAG"

ARCHIVE_TABLE_DIR == "tables/run_TAG"

join(dir, filename) == dir \o "/" \o filename

\* lines 86-87
to_datetime(c) == IF c = NaN THEN NaT ELSE ParsedDate[c[1]]

\* lines 89-91: Series.map of a dict; a value that is no key maps to NaN
MemberType(c) ==
    IF c = Val(1) THEN Val("Core Member")
    ELSE IF c = Val(0) THEN Val("Community Contributor")
    ELSE NaN

WithMemberType(r) ==
    [issue_id       |-> r.issue_id,
     type           |-> r.type,
     title          |-> r.title,
     duration_days  |-> r.duration_days,
     comments_count |-> r.comments_count,
     fixer_login    |-> r.fixer_login,
     is_core_member |-> r.is_core_member,
     created_at     |-> to_datetime(r.created_at),
     member_type    |-> MemberType(r.is_core_member)]

\* a dropna that leaves Member Type out of its subset
HasKeyFieldsButMemberType(r) ==
    /\ notna(r.created_at)
    /\ notna(r.duration_days)
    /\ notna(r.comments_count)

\* line 94: dropna(subset=[created_at, duration_days, comments_count, Member Type])
HasKeyFields(r) ==
    /\ notna(r.created_at)
    /\ notna(r.duration_days)
    /\ notna(r.comments_count)
    /\ notna(r.member_type)

\* load_data of a file that exists
load_data(content) ==
    LET frame == read_csv(content)
        mapped == [i \in 1..Len(frame) |-> WithMemberType(frame[i])]
    IN  Select(mapped, [i \in 1..Len(mapped) |-> HasKeyFields(mapped[i])])

\* the values of a column, its NaN cells skipped as the aggregations skip them
Column(g, name) ==
    LET present == Select(g, [i \in 1..Len(g) |-> notna(g[i][name])])
    IN  [i \in 1..Len(present) |-> present[i][name][1]]

\* the count aggregation: the non-null cells of a column
count(g, name) == Cardinality({i \in 1..Len(g) : notna(g[i][name])})

\* line 107
total_fixes(g) == count(g, "issue_id")

\* line 108
core_fixes(g) == SumSeq(Column(g, "is_core_member"))

\* lines 106-114: one row of the monthly table
MonthlyRow(g, p) ==
    [month_year      |-> p,
     total_fixes     |-> total_fixes(g),
     core_fixes      |-> core_fixes(g),
     mean_duration   |-> mean(Column(g, "duration_days")),
     median_duration |-> median(Column(g, "duration_days")),
     mean_comments   |-> mean(Column(g, "comments_count")),
     core_ratio      |-> Divide(core_fixes(g), total_fixes(g))]

MonthOf(r) == to_period(r.created_at[1])

\* line 117
threshold_applies(t) == t # 0 /\ t > 1

\* a month kept only above the threshold
enough_fixes_strict(row, t) == row.total_fixes > t

\* line 118
enough_fixes(row, t) == row.total_fixes >= t

\* compute_monthly_stats(df, min_fixes_per_month)
compute_monthly_stats(frame, t) ==
    LET dated == {i \in 1..Len(frame) : notna(frame[i].created_at)}
        periods == sort_values(SetToSeq({MonthOf(frame[i]) : i \in dated}))
        monthly == [k \in 1..Len(periods) |->
                      LET p == periods[k]
                          in_month == [i \in 1..Len(frame) |->
                                         /\ notna(frame[i].created_at)
                                         /\ MonthOf(frame[i]) = p]
                      IN  MonthlyRow(Select(frame, in_month), p)]
        kept == IF threshold_applies(t)
                THEN Select(monthly,
                            [k \in 1..Len(monthly) |-> enough_fixes(monthly[k], t)])
                ELSE monthly
    IN  [k \in 1..Len(kept) |->
            [kept[k] EXCEPT !.month_year = to_timestamp(kept[k].month_year)]]

-----------------------------------------------------------------------------
(* build_table1 *)

\* the characters of the group labels in code point order
CharOrder == " ABCDEFGHIJKLMNOPQRSTUVWXYZabcdefghijklmnopqrstuvwxyz"

CharRank(c) == CHOOSE i \in 1..Len(CharOrder) : CharAt(CharOrder, i) = c

\* a < b for strings, as Python compares them
RECURSIVE StrLess(_, _)
StrLess(a, b) ==
    IF Len(b) = 0 THEN FALSE
    ELSE IF Len(a) = 0 THEN TRUE
    ELSE IF CharAt(a, 1) = CharAt(b, 1)
         THEN StrLess(SubSeq(a, 2, Len(a)), SubSeq(b, 2, Len(b)))
         ELSE CharRank(CharAt(a, 1)) < CharRank(CharAt(b, 1))

\* the keys in descending order
RECURSIVE KeyOrderDescending(_)
KeyOrderDescending(S) ==
    IF S = {} THEN <<>>
    ELSE LET first == CHOOSE x \in S : \A y \in S \ {x} : StrLess(y, x)
         IN  <<first>> \o KeyOrderDescending(S \ {first})

\* the keys in the order groupby lists the groups in: ascending
RECURSIVE KeyOrder(_)
KeyOrder(S) ==
    IF S = {} THEN <<>>
    ELSE LET first == CHOOSE x \in S : \A y \in S \ {x} : StrLess(x, y)
         IN  <<first>> \o KeyOrder(S \ {first})

\* groupby("Member Type"): the keys that occur, NaN left out, sorted
group_keys(frame) ==
    KeyOrder({frame[i].member_type[1] :
                 i \in {j \in 1..Len(frame) : notna(frame[j].member_type)}})

Scale100(q) == IF q = NaN THEN NaN ELSE <<100 * q[1], q[2]>>

\* lines 210-221; durations are in hundredths, comments in units
stats_block(g, label) ==
    [member_type     |-> label,
     N               |-> Len(g),
     Duration_mean   |-> mean(Column(g, "duration_days")),
     Duration_median |-> median(Column(g, "duration_days")),
     Duration_Q1     |-> quantile(Column(g, "duration_days"), 1),
     Duration_Q3     |-> quantile(Column(g, "duration_days"), 3),
     Comments_mean   |-> Scale100(mean(Column(g, "comments_count"))),
     Comments_median |-> Scale100(median(Column(g, "comments_count"))),
     Comments_Q1     |-> Scale100(quantile(Column(g, "comments_count"), 1)),
     Comments_Q3     |-> Scale100(quantile(Column(g, "comments_count"), 3))]

\* lines 230-233: every statistic but N rounded to 2 digits (to hundredths)
Rounded(row) ==
    [member_type     |-> row.member_type,
     N               |-> row.N,
     Duration_mean   |-> round(row.Duration_mean),
     Duration_median |-> round(row.Duration_median),
     Duration_Q1     |-> round(row.Duration_Q1),
     Duration_Q3     |-> round(row.Duration_Q3),
     Comments_mean   |-> round(row.Comments_mean),
     Comments_median |-> round(row.Comments_median),
     Comments_Q1     |-> round(row.Comments_Q1),
     Comments_Q3     |-> round(row.Comments_Q3)]

\* line 223
group_table(frame) ==
    LET keys == group_keys(frame) IN
    [k \in 1..Len(keys) |->
        LET in_group == [i \in 1..Len(frame) |-> frame[i].member_type = Val(keys[k])]
        IN  stats_block(Select(frame, in_group), keys[k])]

\* lines 224-225
overall(frame) == stats_block(frame, "Overall")

\* build_table1(df)
build_table1(frame) ==
    LET table == Append(group_table(frame), overall(frame))
    IN  [k \in 1..Len(table) |-> Rounded(table[k])]

-----------------------------------------------------------------------------
(* The visualization program, lines 306-332 *)

Thresholds == {0, 1, 2, MIN_FIXES_PER_MONTH}

\* save_current_figure: the latest copy and the archived copy
SavedFigure(filename) ==
    {join(FIGURES_DIR, filename), join(ARCHIVE_FIG_DIR, filename)}

VizInit ==
    /\ \E data \in DataFiles \cup {Absent} :
         files = [f \in FileNames |-> IF f = FILTERED_CSV THEN data ELSE Absent]
    /\ run = NotRun
    /\ rerun = NotRun
    /\ pc = "ensure_dirs"
    /\ main_df = <<>>
    /\ min_fixes_per_month = MIN_FIXES_PER_MONTH
    /\ monthly_stats = <<>>
    /\ correlation = {}
    /\ table1 = <<>>
    /\ disk = {}
    /\ ScraperIdle

\* line 308
EnsureDirs ==
    /\ pc = "ensure_dirs"
    /\ disk' = disk \cup {FIGURES_DIR, TABLES_DIR, ARCHIVE_FIG_DIR, ARCHIVE_TABLE_DIR}
    /\ pc' = "load_data"
    /\ UNCHANGED <<files, filterVars, scraperVars, main_df, min_fixes_per_month,
                   monthly_stats, correlation, table1>>

\* lines 310-312: load_data returns None when the file is missing
LoadData ==
    /\ pc = "load_data"
    /\ \/ /\ ~ files[FILTERED_CSV].exists
          /\ pc' = "done"
          /\ UNCHANGED main_df
       \/ /\ files[FILTERED_CSV].exists
          /\ main_df' = load_data(files[FILTERED_CSV].rows)
          /\ pc' = "plot_comparisons"
    /\ UNCHANGED <<files, filterVars, scraperVars, min_fixes_per_month, monthly_stats, correlation, table1, disk>>

\* lines 316-317
PlotComparisons ==
    /\ pc = "plot_comparisons"
    /\ disk' = disk \cup SavedFigure("duration_comparison.png")
                    \cup SavedFigure("comments_comparison.png")
    /\ pc' = "compute_monthly_stats"
    /\ UNCHANGED <<files, filterVars, scraperVars, main_df, min_fixes_per_month,
                   monthly_stats, correlation, table1>>

\* line 320; the script passes MIN_FIXES_PER_MONTH, the function takes any
\* threshold
ComputeMonthlyStats ==
    /\ pc = "compute_monthly_stats"
    /\ \E t \in Thresholds :
         /\ min_fixes_per_month' = t
         /\ monthly_stats' = compute_monthly_stats(main_df, t)
    /\ pc' = "plot_timeline_analysis"
    /\ UNCHANGED <<files, filterVars, scraperVars, main_df, correlation, table1,
                   disk>>

\* line 323
PlotTimelineAnalysis ==
    /\ pc = "plot_timeline_analysis"
    /\ disk' = disk \cup SavedFigure("timeline_analysis.png")
    /\ pc' = "plot_core_ratio_vs_mean_duration"
    /\ UNCHANGED <<files, filterVars, scraperVars, main_df, min_fixes_per_month,
                   monthly_stats, correlation, table1>>

\* a minimum of two monthly points
enough_points_two(stats) == Len(stats) >= 2

\* line 175
enough_points(stats) == Len(stats) >= 3

\* line 326: plot_core_ratio_vs_mean_duration(monthly_stats)
PlotCoreRatioVsMeanDuration ==
    /\ pc = "plot_core_ratio_vs_mean_duration"
    /\ \/ /\ ~ enough_points(monthly_stats)
          /\ UNCHANGED <<correlation, disk>>
       \/ /\ enough_points(monthly_stats)
          /\ correlation' = {"pearson_r", "spearman_rho"}
          /\ disk' = disk \cup SavedFigure("core_ratio_vs_mean_duration.png")
    /\ pc' = "build_table1"
    /\ UNCHANGED <<files, filterVars, scraperVars, main_df, min_fixes_per_month,
                   monthly_stats, table1>>

\* line 329; what groupby.apply makes of a frame with no rows depends on the
\* pandas version: the call raises or yields the Overall row alone
BuildTable1 ==
    /\ pc = "build_table1"
    /\ \/ /\ Len(main_df) > 0
          /\ table1' = build_table1(main_df)
          /\ pc' = "save_table1_outputs"
       \/ /\ Len(main_df) = 0
          /\ table1' = <<Rounded(overall(main_df))>>
          /\ pc' = "save_table1_outputs"
       \/ /\ Len(main_df) = 0
          /\ pc' = "raised"
          /\ UNCHANGED table1
    /\ UNCHANGED <<files, filterVars, scraperVars, main_df, min_fixes_per_month,
                   monthly_stats, correlation, disk>>

\* line 330
SaveTable1Outputs ==
    /\ pc = "save_table1_outputs"
    /\ disk' = disk \cup {join(TABLES_DIR, "table1_summary.csv"),
                          join(ARCHIVE_TABLE_DIR, "table1_summary.csv"),
                          join(TABLES_DIR, "table1_summary.md"),
                          join(ARCHIVE_TABLE_DIR, "table1_summary.md")}
                    \cup SavedFigure("table1_summary.png")
    /\ pc' = "done"
    /\ UNCHANGED <<files, filterVars, scraperVars, main_df, min_fixes_per_month,
                   monthly_stats, correlation, table1>>

VizNext ==
    \/ EnsureDirs
    \/ LoadData
    \/ PlotComparisons
    \/ ComputeMonthlyStats
    \/ PlotTimelineAnalysis
    \/ PlotCoreRatioVsMeanDuration
    \/ BuildTable1
    \/ SaveTable1Outputs

VizSpec == VizInit /\ [][VizNext]_vars

-----------------------------------------------------------------------------
(* Properties of filter_django_bugs *)

Calls == {c \in {run, rerun} : c # NotRun}

InputFrame(c) == read_csv(files[c.input].rows)

\* the number of True entries of a boolean series
CountTrue(mask) == Cardinality({i \in 1..Len(mask) : mask[i]})

Not(mask) == [i \in 1..Len(mask) |-> ~ mask[i]]

FailsRule1(df) == Not(test_ticket_filter(df))

FailsRule2(df) == And(test_ticket_filter(df), Not(stitch_filter(df)))

FailsRule3(df) ==
    And(And(test_ticket_filter(df), stitch_filter(df)), Not(comments_filter(df)))

FailsRule4(df) ==
    And(And(And(test_ticket_filter(df), stitch_filter(df)), comments_filter(df)),
        Not(missing_data_filter(df)))

\* the four rules applied one after the other, last rule first
FilteredInReverse(df) ==
    LET d4 == Select(df, missing_data_filter(df))
        d3 == Select(d4, comments_filter(d4))
        d2 == Select(d3, stitch_filter(d3))
    IN  Select(d2, test_ticket_filter(d2))

\* C1: whenever filter_django_bugs reports its statistics, the retained rows
\* plus the four per-rule removal counts add up to the input rows, and the
\* reported total removed is the sum of the four counts.
C1_CountsAddUp ==
    \A c \in Calls :
        c.report.printed =>
            LET rep == c.report
                four == rep.removed_test_tickets + rep.removed_stitch
                          + rep.removed_zero_comments + rep.removed_missing
            IN  /\ rep.filtered_count + four = c.original_count
                /\ rep.removed_total = four
                /\ rep.filtered_count = Len(c.filtered_df)
                /\ c.original_count = Len(files[c.input].rows)

C1_Witness ==
    /\ run.outcome = "returned"
    /\ run.report.removed_stitch > 0
    /\ run.report.removed_missing > 0

\* C2: each reported count is the number of rows that pass every earlier
\* rule and fail this one; the retained rows are the rows passing all four
\* rules, whatever the order the rules are applied in; the six-row scenario
\* retains 1 row and reports 3, 0, 1, 1.
C2_CumulativeCounts ==
    \A c \in Calls :
        c.report.printed =>
            LET df == InputFrame(c)
                rep == c.report
            IN  /\ rep.removed_test_tickets = CountTrue(FailsRule1(df))
                /\ rep.removed_stitch = CountTrue(FailsRule2(df))
                /\ rep.removed_zero_comments = CountTrue(FailsRule3(df))
                /\ rep.removed_missing = CountTrue(FailsRule4(df))
                /\ c.filtered_df = FilteredInReverse(df)
                /\ (files[c.input].rows = ScenarioSixRows =>
                      /\ Len(c.filtered_df) = 1
                      /\ rep.removed_test_tickets = 3
                      /\ rep.removed_stitch = 0
                      /\ rep.removed_zero_comments = 1
                      /\ rep.removed_missing = 1)

C2_Witness ==
    /\ files[RAW_CSV].rows = ScenarioSixRows
    /\ run.outcome = "returned"
    /\ run.report.removed_test_tickets = 3

ZeroReport(rep) ==
    /\ rep.printed
    /\ rep.removed_test_tickets = 0
    /\ rep.removed_stitch = 0
    /\ rep.removed_zero_comments = 0
    /\ rep.removed_missing = 0

\* C3: filter_django_bugs applied to the file it wrote completes, retains
\* every row of it and reports zero rows removed by each rule.
C3_Idempotent ==
    rerun # NotRun =>
        /\ rerun.outcome = "returned"
        /\ rerun.filtered_df = InputFrame(rerun)
        /\ ZeroReport(rerun.report)

\* the second application of the filter removes nothing, whenever the first
\* one retained at least one row
IdempotentOnRetainedRows ==
    (rerun # NotRun /\ Len(run.filtered_df) > 0) =>
        /\ rerun.outcome = "returned"
        /\ rerun.filtered_df = run.filtered_df
        /\ ZeroReport(rerun.report)
        /\ files[REFILTERED_CSV] = files[FILTERED_CSV]

\* C4: on an empty record set filter_django_bugs completes, yields an empty
\* output and reports zero for all four rules.
C4_EmptyInputCompletes ==
    \A c \in Calls :
        (files[c.input].exists /\ files[c.input].rows = <<>>) =>
            /\ c.outcome = "returned"
            /\ c.filtered_df = <<>>
            /\ ZeroReport(c.report)
            /\ files[c.output] = File(<<>>)

-----------------------------------------------------------------------------
(* Properties of the visualization program *)

MonthlyComputed ==
    pc \in {"plot_timeline_analysis", "plot_core_ratio_vs_mean_duration",
            "build_table1", "save_table1_outputs", "raised"}
        \/ (pc = "done" /\ files[FILTERED_CSV].exists)

MonthlyRows == {monthly_stats[k] : k \in 1..Len(monthly_stats)}

InUnitInterval(q) ==
    /\ q # NaN
    /\ q # Inf
    /\ 0 <= q[1]
    /\ q[1] <= q[2]

\* C5: every month row has core_fixes <= total_fixes and 0 <= core_ratio <= 1.
C5_CoreRatioBounds ==
    MonthlyComputed =>
        \A row \in MonthlyRows :
            /\ row.core_fixes <= row.total_fixes
            /\ InUnitInterval(row.core_ratio)

AllIssueIdsPresent == \A i \in 1..Len(main_df) : notna(main_df[i].issue_id)

\* the bounds of C5 hold of every dataset whose issue_id column has no null
CoreRatioBoundsWithIssueIds ==
    (MonthlyComputed /\ AllIssueIdsPresent) =>
        \A row \in MonthlyRows :
            /\ row.core_fixes <= row.total_fixes
            /\ InUnitInterval(row.core_ratio)

\* the months that have at least one record of the loaded dataset
MonthsOfData == {MonthOf(main_df[i]) : i \in 1..Len(main_df)}

\* the non-null issue_id cells of a month
FixesOfMonth(p) ==
    Cardinality({i \in 1..Len(main_df) :
                    MonthOf(main_df[i]) = p /\ notna(main_df[i].issue_id)})

ExpectedMonths(t) ==
    IF t > 1 THEN {p \in MonthsOfData : FixesOfMonth(p) >= t} ELSE MonthsOfData

\* C6: with a threshold t > 1 the result holds exactly the months whose
\* total_fixes >= t, each with the statistics it had before the filter, and
\* with t = 0 or t = 1 every month that has a record; one row per month, in
\* ascending order; 12 months of 5 fixes and t = 10 give an empty result.
C6_ThresholdKeepsExactly ==
    MonthlyComputed =>
        LET t == min_fixes_per_month IN
        /\ {row.month_year : row \in MonthlyRows}
             = {to_timestamp(p) : p \in ExpectedMonths(t)}
        /\ Len(monthly_stats) = Cardinality(ExpectedMonths(t))
        /\ \A k \in 1..Len(monthly_stats) :
             /\ monthly_stats[k].total_fixes
                  = FixesOfMonth(to_period(monthly_stats[k].month_year))
             /\ k > 1 => to_period(monthly_stats[k - 1].month_year)
                           < to_period(monthly_stats[k].month_year)
        /\ (files[FILTERED_CSV].rows = ScenarioTwelveMonths
              /\ t = MIN_FIXES_PER_MONTH) => monthly_stats = <<>>

C6_Witness ==
    /\ MonthlyComputed
    /\ min_fixes_per_month = 2
    /\ Len(monthly_stats) = 1
    /\ Cardinality(MonthsOfData) = 2

C6_ScenarioReached ==
    /\ MonthlyComputed
    /\ files[FILTERED_CSV].rows = ScenarioTwelveMonths
    /\ min_fixes_per_month = MIN_FIXES_PER_MONTH
    /\ Cardinality(MonthsOfData) = 12

TableBuilt == table1 # <<>>

Labels == [k \in 1..Len(table1) |-> table1[k].member_type]

\* the N of the rows of table1 with a label, 0 when there is none
NOf(label) ==
    SumSeq([k \in 1..Len(table1) |->
               IF table1[k].member_type = label THEN table1[k].N ELSE 0])

\* C7: for a non-empty dataset the N of the Core Member row plus the N of the
\* Community Contributor row is the N of the Overall row.
C7_ClassCountsSumToOverall ==
    (TableBuilt /\ Len(main_df) > 0) =>
        /\ "Overall" \in {Labels[k] : k \in 1..Len(Labels)}
        /\ NOf("Core Member") + NOf("Community Contributor") = NOf("Overall")
        /\ NOf("Overall") = Len(main_df)

C7_Witness ==
    /\ TableBuilt
    /\ NOf("Core Member") = 2
    /\ NOf("Community Contributor") = 1

HasClass(label) == \E i \in 1..Len(main_df) : main_df[i].member_type = Val(label)

AllDurations == [i \in 1..Len(main_df) |-> main_df[i].duration_days[1]]

C9_EmptyClassRow ==
    (pc \in {"save_table1_outputs", "raised"} /\ Len(main_df) > 0
        /\ ~ HasClass("Community Contributor")) =>
        /\ pc = "save_table1_outputs"
        /\ \E k \in 1..Len(table1) :
             /\ table1[k].member_type = "Community Contributor"
             /\ table1[k].N = 0
             /\ table1[k].Duration_mean = NaN
             /\ table1[k].Comments_mean = NaN

\* build_table1 does not fail on a dataset of Core Member records only
AllCoreTableIsBuilt ==
    (pc \in {"save_table1_outputs", "raised"} /\ Len(main_df) > 0
        /\ ~ HasClass("Community Contributor")) =>
        /\ pc = "save_table1_outputs"
        /\ Labels = <<"Core Member", "Overall">>

CorrelationFigure == SavedFigure("core_ratio_vs_mean_duration.png")

\* C10: with fewer than 3 monthly rows plot_core_ratio_vs_mean_duration
\* computes no coefficient, saves no correlation figure and returns; with 3
\* or more it computes both coefficients.
C10_CorrelationNeedsThreePoints ==
    /\ pc \in {"ensure_dirs", "load_data", "plot_comparisons",
               "compute_monthly_stats", "plot_timeline_analysis",
               "plot_core_ratio_vs_mean_duration"} =>
          (correlation = {} /\ CorrelationFigure \cap disk = {})
    /\ pc \in {"build_table1", "save_table1_outputs", "raised", "done"} =>
          IF Len(monthly_stats) < 3
          THEN correlation = {} /\ CorrelationFigure \cap disk = {}
          ELSE correlation = {"pearson_r", "spearman_rho"}

C10_Witness ==
    /\ pc = "build_table1"
    /\ Len(monthly_stats) = 2
    /\ correlation = {}

C10_ThreePointsReached ==
    /\ pc = "build_table1"
    /\ Len(monthly_stats) = 3
    /\ correlation = {"pearson_r", "spearman_rho"}

-----------------------------------------------------------------------------
(* A missing input file *)

OutputDirs == {FIGURES_DIR, TABLES_DIR, ARCHIVE_FIG_DIR, ARCHIVE_TABLE_DIR}

\* C11: when the input dataset file is absent the pipeline does not run
\* and leaves no partial output: filter_django_bugs (first conjunct) writes
\* no output file and returns nothing, and the visualization main run
\* (second conjunct) creates no figure, table or directory on disk.
C11_MissingInputNoOutput ==
    /\ \A c \in Calls :
         ~ files[c.input].exists =>
            /\ c.outcome = "returned None"
            /\ ~ c.written
            /\ ~ files[c.output].exists
    /\ (~ files[FILTERED_CSV].exists /\ pc = "done") => disk = {}

\* filter_django_bugs on a missing file: no report, no file, None
MissingInputFilterReturns ==
    \A c \in Calls :
       ~ files[c.input].exists =>
          /\ c.outcome = "returned None"
          /\ c.report = NoReport
          /\ ~ c.written
          /\ \A f \in FileNames : ~ files[f].exists

MissingInputFilterReached ==
    /\ run # NotRun
    /\ ~ files[RAW_CSV].exists

\* the visualization run on a missing file: the output directories and
\* nothing else
MissingInputLeavesDirsOnly ==
    (~ files[FILTERED_CSV].exists /\ pc = "done") =>
       /\ disk = OutputDirs
       /\ main_df = <<>>
       /\ table1 = <<>>

-----------------------------------------------------------------------------
(* scraper.py: the remote repository *)

\* a datetime: its calendar date and its second on a common clock; the
\* record keeps the two in step
Day == 86400

Created == [year |-> 2020, month |-> 1, day |-> 15, second |-> 0]

Later(seconds) == [year |-> 2020, month |-> 1, day |-> 15 + seconds \div Day,
                   second |-> seconds]

FixIssue ==
    [number |-> 0, title |-> "Fixed admin crash", labels |-> {},
     user |-> Val("alice"), created_at |-> Created,
     closed_at |-> Val(Later(216000)), comments |-> 2, pull_request |-> FALSE]

LONG_TITLE == "Debugging the queryset cache of related managers in the admin site"

\* the issues the closed-issue listing may yield
IssueKinds ==
    { FixIssue,
      [FixIssue EXCEPT !.title = "Add feature", !.labels = {"docs", "Bug"},
                       !.user = Val("bob"), !.closed_at = Val(Later(1000)),
                       !.pull_request = TRUE],
      [FixIssue EXCEPT !.title = "Add feature", !.labels = {"docs"}],
      [FixIssue EXCEPT !.title = "BUG in orm", !.closed_at = NaN],
      [FixIssue EXCEPT !.title = LONG_TITLE, !.user = NaN, !.comments = 0] }

Numbered(kinds) == [i \in 1..Len(kinds) |-> [kinds[i] EXCEPT !.number = 100 + i]]

RemoteIssues == {Numbered(kinds) : kinds \in SeqsUpTo(IssueKinds, MaxRemoteIssues)}

\* contributor logins, most active first
ManyContributors ==
    <<"alice", "c02", "c03", "c04", "c05", "c06", "c07", "c08", "c09", "c10",
      "c11", "c12", "c13", "c14", "c15", "c16", "c17", "c18", "c19", "c20", "bob">>

RemoteContributors == {<<"bob">>, ManyContributors}

-----------------------------------------------------------------------------
(* scraper.py: get_bug_data and save_to_csv *)

CORE_LIMIT == 20

Min(a, b) == IF a < b THEN a ELSE b

\* s[:n]
Prefix(s, n) == SubSeq(s, 1, Min(n, Len(s)))

Elements(s) == {s[i] : i \in 1..Len(s)}

\* lines 62-66
is_fix(issue) ==
    LET title_lower == lower(issue.title)
        labels == {lower(l) : l \in issue.labels}
    IN  \/ search(title_lower, "fix")
        \/ search(title_lower, "bug")
        \/ search(title_lower, "fixed")
        \/ \E lab \in labels : search(lab, "bug")

IsFixKind == [k \in IssueKinds |-> is_fix(k)]

IsFix(issue) == IsFixKind[[issue EXCEPT !.number = 0]]

\* line 77 and round(duration, 2), in hundredths of a day
duration_days(created, closed) ==
    round(Divide(100 * (closed.second - created.second), Day))[1]

DigitChar(d) == CharAt(Digits, d + 1)

RECURSIVE zero_pad(_, _)
zero_pad(n, width) ==
    IF width = 0 THEN ""
    ELSE zero_pad(n \div 10, width - 1) \o DigitChar(n % 10)

\* created.strftime('%Y-%m-%d')
strftime(d) ==
    zero_pad(d.year, 4) \o "-" \o zero_pad(d.month, 2) \o "-" \o zero_pad(d.day, 2)

\* lines 71-88: the record appended for an issue
BugRecord(issue, core) ==
    LET fixer == IF issue.user # NaN THEN issue.user[1] ELSE "Unknown" IN
    [issue_id       |-> issue.number,
     type           |-> IF issue.pull_request THEN "PR" ELSE "Issue",
     title          |-> Prefix(issue.title, 50),
     duration_days  |-> duration_days(issue.created_at, issue.closed_at[1]),
     comments_count |-> issue.comments,
     fixer_login    |-> fixer,
     is_core_member |-> IF fixer \in Elements(core) THEN 1 ELSE 0,
     created_at     |-> strftime(issue.created_at)]

\* a cap that is passed only once it is exceeded
reached_max_late(collected) == Len(collected) > MAX_ISSUES

\* line 56
reached_max(collected) == Len(collected) >= MAX_ISSUES

\* a save that needs two records
nothing_to_save_below_two(records) == Len(records) < 2

\* line 18: if not data_list
nothing_to_save(records) == Len(records) = 0

\* pd.DataFrame(data_list): every value becomes a cell
DataFrame(records) ==
    [i \in 1..Len(records) |->
        [issue_id       |-> Val(records[i].issue_id),
         type           |-> Val(records[i].type),
         title          |-> Val(records[i].title),
         duration_days  |-> Val(records[i].duration_days),
         comments_count |-> Val(records[i].comments_count),
         fixer_login    |-> Val(records[i].fixer_login),
         is_core_member |-> Val(records[i].is_core_member),
         created_at     |-> Val(records[i].created_at)]]

Interruptions == {"KeyboardInterrupt", "RateLimitExceededException"}

-----------------------------------------------------------------------------
(* The scraper program, lines 97-101 *)

ScraperInit ==
    /\ files = [f \in FileNames |-> Absent]
    /\ run = NotRun
    /\ rerun = NotRun
    /\ VizIdle
    /\ issues \in RemoteIssues
    /\ contributors \in RemoteContributors
    /\ spc = "get_repo"
    /\ core_members = <<>>
    /\ scanned_count = 0
    /\ bug_data = <<>>
    /\ stopped_by = "nothing"
    /\ data_list = <<>>

\* lines 31-45: the connection fails and get_bug_data returns [], or the
\* first CORE_LIMIT contributors are listed
GetRepo ==
    /\ spc = "get_repo"
    /\ \/ /\ stopped_by' = "Exception"
          /\ data_list' = <<>>
          /\ spc' = "save_to_csv"
          /\ UNCHANGED core_members
       \/ /\ core_members' = Prefix(contributors, CORE_LIMIT)
          /\ spc' = "scan"
          /\ UNCHANGED <<stopped_by, data_list>>
    /\ UNCHANGED <<files, filterVars, vizVars, issues, contributors,
                   scanned_count, bug_data>>

\* lines 51-88: one pass of the loop body for the next issue; the break at
\* line 57 leads to the return at line 95
ScanIssue ==
    /\ spc = "scan"
    /\ scanned_count < Len(issues)
    /\ scanned_count' = scanned_count + 1
    /\ LET issue == issues[scanned_count + 1] IN
       IF reached_max(bug_data)
       THEN /\ stopped_by' = "break"
            /\ data_list' = bug_data
            /\ spc' = "save_to_csv"
            /\ UNCHANGED bug_data
       ELSE /\ bug_data' = IF IsFix(issue) /\ issue.closed_at # NaN
                           THEN Append(bug_data, BugRecord(issue, core_members))
                           ELSE bug_data
            /\ UNCHANGED <<stopped_by, data_list, spc>>
    /\ UNCHANGED <<files, filterVars, vizVars, issues, contributors, core_members>>

\* the listing has no further issue: the loop ends, line 95 returns
EndOfIssues ==
    /\ spc = "scan"
    /\ scanned_count = Len(issues)
    /\ stopped_by' = "end of issues"
    /\ data_list' = bug_data
    /\ spc' = "save_to_csv"
    /\ UNCHANGED <<files, filterVars, vizVars, issues, contributors, core_members,
                   scanned_count, bug_data>>

\* lines 90-95: an exception raised while the next issue is fetched or
\* while the loop body runs, before its append; the handler prints and line
\* 95 returns
Interrupted ==
    /\ spc = "scan"
    /\ stopped_by' \in Interruptions
    /\ \/ UNCHANGED scanned_count
       \/ /\ scanned_count < Len(issues)
          /\ scanned_count' = scanned_count + 1
    /\ data_list' = bug_data
    /\ spc' = "save_to_csv"
    /\ UNCHANGED <<files, filterVars, vizVars, issues, contributors, core_members,
                   bug_data>>

\* line 100: save_to_csv(data)
SaveToCsv ==
    /\ spc = "save_to_csv"
    /\ files' = IF nothing_to_save(data_list) THEN files
                ELSE [files EXCEPT ![RAW_CSV] = File(to_csv(DataFrame(data_list)))]
    /\ spc' = "done"
    /\ UNCHANGED <<filterVars, vizVars, issues, contributors, core_members,
                   scanned_count, bug_data, stopped_by, data_list>>

ScraperNext ==
    \/ GetRepo
    \/ ScanIssue
    \/ EndOfIssues
    \/ Interrupted
    \/ SaveToCsv

ScraperSpec == ScraperInit /\ [][ScraperNext]_vars

-----------------------------------------------------------------------------
(* Properties of the scraper *)

IsPrefix(s, t) == Len(s) <= Len(t) /\ SubSeq(t, 1, Len(s)) = s

\* the rows of the saved file hold the records, one row each, in order
Holds(file, records) ==
    /\ file.exists
    /\ Len(file.rows) = Len(records)
    /\ \A i \in 1..Len(records) :
         /\ file.rows[i].issue_id = Val(records[i].issue_id)
         /\ file.rows[i].type = records[i].type
         /\ file.rows[i].title = records[i].title
         /\ file.rows[i].duration_days = Val(records[i].duration_days)
         /\ file.rows[i].comments_count = Val(records[i].comments_count)
         /\ file.rows[i].fixer_login = records[i].fixer_login
         /\ file.rows[i].is_core_member = Val(records[i].is_core_member)
         /\ file.rows[i].created_at = records[i].created_at

\* C12: if the issue scan of get_bug_data is interrupted at any point
\* (KeyboardInterrupt or RateLimitExceededException), every record appended
\* before the interruption is returned and, when at least one was collected,
\* written by save_to_csv: no collected record is ever dropped (first
\* conjunct), the interrupted call returns all of them (second) and the
\* save writes all of them (third).
C12_InterruptionKeepsRecords ==
    [][ /\ IsPrefix(bug_data, bug_data')
        /\ (spc = "scan" /\ stopped_by' \in Interruptions) =>
              data_list' = bug_data
        /\ (spc = "save_to_csv" /\ stopped_by \in Interruptions
              /\ Len(bug_data) >= 1) =>
              (spc' = "done" /\ Holds(files'[RAW_CSV], bug_data)) ]_vars

C12_Witness ==
    /\ spc = "done"
    /\ stopped_by = "KeyboardInterrupt"
    /\ scanned_count < Len(issues)
    /\ Len(bug_data) = 1
    /\ data_list = bug_data
    /\ Holds(files[RAW_CSV], bug_data)

C12_RateLimitReached ==
    /\ spc = "done"
    /\ stopped_by = "RateLimitExceededException"
    /\ Len(bug_data) = MAX_ISSUES
    /\ Holds(files[RAW_CSV], bug_data)

\* an interruption before any record leaves no file
C12_NothingCollectedReached ==
    /\ spc = "done"
    /\ stopped_by \in Interruptions
    /\ bug_data = <<>>
    /\ ~ files[RAW_CSV].exists

\* the fix/bug test: the title holds "fix" or "bug", or a label holds "bug",
\* in any letter case
MatchesFixOrBug ==
    [k \in IssueKinds |->
        \/ contains_nocase(k.title, {"fix", "bug"})
        \/ \E l \in k.labels : contains_nocase(l, {"bug"})]

\* the place in the listing of the issue a record was made from
IssueOf(record) == CHOOSE i \in 1..Len(issues) : issues[i].number = record.issue_id

\* C13: at every point of the scan loop at most MAX_ISSUES records are
\* collected, every collected record comes from a scanned issue whose
\* closed_at is present and whose title or labels match the fix/bug test,
\* and once MAX_ISSUES records are collected the loop stops when the next
\* issue is fetched.
C13_CapAndProvenance ==
    /\ Len(bug_data) <= MAX_ISSUES
    /\ \A k \in 1..Len(bug_data) :
         \E i \in 1..scanned_count :
            /\ issues[i].number = bug_data[k].issue_id
            /\ issues[i].closed_at # NaN
            /\ MatchesFixOrBug[[issues[i] EXCEPT !.number = 0]]
    /\ Len(bug_data) = MAX_ISSUES =>
         /\ scanned_count <= IssueOf(bug_data[MAX_ISSUES]) + 1
         /\ scanned_count = IssueOf(bug_data[MAX_ISSUES]) + 1 => spc # "scan"

C13_Witness ==
    /\ stopped_by = "break"
    /\ Len(bug_data) = MAX_ISSUES
    /\ scanned_count = IssueOf(bug_data[MAX_ISSUES]) + 1
    /\ scanned_count < Len(issues)

\* an issue that matches the test but has no closed_at is passed over
C13_UnclosedSkippedReached ==
    /\ spc = "scan"
    /\ scanned_count = 2
    /\ issues[1].closed_at = NaN
    /\ MatchesFixOrBug[[issues[1] EXCEPT !.number = 0]]
    /\ Len(bug_data) = 1
    /\ bug_data[1].issue_id = issues[2].number

====
